---- MODULE Spec2Model ----
(***************************************************************************)
(* Off-chain SDK of the data-streams Solana integration: the               *)
(* AccessControllerClient and the VerifierAdminClient, each call broken    *)
(* into the RPC calls it makes (get_account, get_latest_blockhash, the     *)
(* submission), against a ledger holding the verifier data account's       *)
(* length, the access controller account's bytes and the two-phase         *)
(* ownership state of both accounts.                                       *)
(***************************************************************************)
EXTENDS Integers, Sequences, FiniteSets, TLC

\* ------------------------------------------------------------ bounds
\* Pubkeys of the payers, owners and proposed owners: 1..NumKeys.
NumKeys == 3
\* The verifier schema sizes tried span 0..MaxFullSteps whole increments.
MaxFullSteps == 2
\* Calls one client thread makes in a behaviour.
MaxInvocations == 3
\* Longest signed report handed to verify.
MaxReportLen == 33

\* ------------------------------------------------- program constants
ACCOUNT_DISCRIMINATOR_SIZE == 8
REALLOC_INCREMENT == 10240
\* report[..32]: the seed of the per-feed config account
REPORT_SEED_LEN == 32
\* `len as u32` of a usize: every length of the model lies below 2^31 (the
\* largest is the target size), where the cast keeps the value
AsU32(len) == len

None == 0
NoAccount == -1
Keys == 1 .. NumKeys
Procs == {1, 2}
Programs == {"access_controller", "verifier"}

Min(a, b) == IF a < b THEN a ELSE b

VARIABLES
    size_of,            \* size_of::<AccessController>(), size_of::<VerifierAccount>()
    verifier_len,       \* ledger: data length of the verifier account, NoAccount if absent
    ac_data,            \* ledger: bytes of the access controller account
    owner,              \* ledger: owner of each program's account
    proposed_owner,     \* ledger: pending proposed owner of each program's account, or None
    pc,                 \* each client thread's position
    op,                 \* the client method it is in
    payer,              \* self.payer of the client it calls
    access_controller,  \* self.access_controller_data_account of the verifier client
    instr,              \* the instruction built for the next submission
    current_size,       \* realloc_full_size's local current_size
    calls,              \* the RPC calls of the current invocation, in order
    result,             \* what the invocation returned
    previous,           \* what the realloc_full_size just before this one returned
    invocations         \* calls made so far

vars == <<size_of, verifier_len, ac_data, owner, proposed_owner, pc, op, payer,
          access_controller, instr, current_size, calls, result, previous,
          invocations>>

\* --------------------------------------------------- pure functions

\* let target_size = ACCOUNT_DISCRIMINATOR_SIZE + size_of::<VerifierAccount>()
TargetSize == ACCOUNT_DISCRIMINATOR_SIZE + size_of.VerifierAccount

\* size_of::<AccessController>() + 8
AccessControllerSizeRequirement == size_of.AccessController + 8

\* let mut current_size = current_account.data.len()
ReadSizeFromZero(len) == 0
ReadSize(len) == len

\* while current_size < target_size
LoopContinues(cs, target) == cs < target

\* current_size = min(current_size + REALLOC_INCREMENT, target_size)
NextSizeNoMin(cs, target) == cs + REALLOC_INCREMENT
NextSize(cs, target) == Min(cs + REALLOC_INCREMENT, target)

\* if current_size >= target_size { return Ok(signature) }
ReturnsSignatureEarly(cs, target) == cs + REALLOC_INCREMENT >= target
ReturnsSignature(cs, target) == cs >= target

\* the `?` after a call: an Err leaves the method at once
PropagatesNothing(out) == FALSE
PropagatesError(out) == out # "ok"

\* what the caller gets for the transport's answer
ReturnedValue(out) == IF out = "ok" THEN "sig" ELSE out

\* send_transaction: get_latest_blockhash()? and then the submission
AfterBlockhashAlwaysSend(out) == "send"
AfterBlockhash(out) == IF PropagatesError(out) THEN "done" ELSE "send"

\* the submission call of each client's send_transaction
SubmitCall(program) ==
    IF program = "access_controller"
    THEN "send_transaction_with_config"
    ELSE "send_and_confirm_transaction"

NoInstr == [program |-> "none", name |-> "none", authority |-> None, arg |-> 0]

\* realloc(len): ReallocInstruction { _len: len as u32 }, owner: payer
ReallocInstructionByIncrement(p, len) ==
    [program |-> "verifier", name |-> "realloc_account",
     authority |-> p, arg |-> REALLOC_INCREMENT]
ReallocInstruction(p, len) ==
    [program |-> "verifier", name |-> "realloc_account",
     authority |-> p, arg |-> AsU32(len)]

\* transfer_ownership(proposed_owner) of either client: authority/owner is the payer
TransferOwnershipAuthorityProposed(program, p, proposed) ==
    [program |-> program, name |-> "transfer_ownership",
     authority |-> proposed, arg |-> proposed]
TransferOwnershipInstruction(program, p, proposed) ==
    [program |-> program, name |-> "transfer_ownership",
     authority |-> p, arg |-> proposed]

\* accept_ownership() of either client: authority/owner is the payer
AcceptOwnershipInstruction(program, p) ==
    [program |-> program, name |-> "accept_ownership",
     authority |-> p, arg |-> 0]

\* VerifierInstructions::verify(program, verifier, access_controller, payer,
\* config_account, compressed_report); the report is kept by its length
VerifyInstruction(p, ac, report_len) ==
    [program |-> "verifier", name |-> "verify",
     authority |-> p, arg |-> report_len]

\* verify: the access controller is looked up first (ok_or_else ... ?), then
\* compute_report_config_pda slices report[..32], which panics on a short report
VerifyPathUnchecked(ac, report_len) ==
    IF report_len < REPORT_SEED_LEN THEN "panic" ELSE "send"
VerifyPath(ac, report_len) ==
    IF ac = None THEN "precondition"
    ELSE IF report_len < REPORT_SEED_LEN THEN "panic"
    ELSE "send"

VerifyPreconditionError == "AccessController is required for verification"

\* AccessController::try_deserialize(&mut &account.data[..]): the 8-byte
\* discriminator is checked, then the schema is read from the rest
TryDeserialize(data) ==
    IF data.len < ACCOUNT_DISCRIMINATOR_SIZE THEN "AccountDiscriminatorNotFound"
    ELSE IF data.disc # "AccessController" THEN "AccountDiscriminatorMismatch"
    ELSE IF data.len < AccessControllerSizeRequirement THEN "AccountDidNotDeserialize"
    ELSE "ok"

\* ------------------------------------------------------------ ledger

\* The most one transaction may grow an account by.
LedgerGrowthCeiling == REALLOC_INCREMENT

\* Whether the on-ledger program takes instruction i of a transaction signed by
\* `signers`.
LedgerAccepts(i, signers) ==
    /\ i.authority \in signers
    /\ CASE i.name = "transfer_ownership" -> i.authority = owner[i.program]
         [] i.name = "accept_ownership" ->
                /\ proposed_owner[i.program] # None
                /\ i.authority = proposed_owner[i.program]
         [] i.name = "realloc_account" ->
                /\ i.authority = owner[i.program]
                /\ verifier_len # NoAccount
                /\ i.arg - verifier_len <= LedgerGrowthCeiling
         [] OTHER -> TRUE

\* The ledger after instruction i.
LedgerApply(i) ==
    /\ owner' = IF i.name = "accept_ownership"
                THEN [owner EXCEPT ![i.program] = i.authority]
                ELSE owner
    /\ proposed_owner' =
         CASE i.name = "transfer_ownership" ->
                [proposed_owner EXCEPT ![i.program] = i.arg]
           [] i.name = "accept_ownership" ->
                [proposed_owner EXCEPT ![i.program] = None]
           [] OTHER -> proposed_owner
    /\ verifier_len' = IF i.name = "realloc_account" THEN i.arg ELSE verifier_len

\* rpc_client.get_account: the account, or an error
GetAccountOutcomes(present) ==
    IF present THEN {"ok", "TransportError"} ELSE {"AccountNotFound", "TransportError"}

\* rpc_client.get_latest_blockhash
BlockhashOutcomes == {"ok", "TransportError"}

\* the submission: a signature, a transport error, or the ledger's refusal
SubmitOutcomes(i, signers) ==
    IF LedgerAccepts(i, signers)
    THEN {"ok", "TransportError", "RemoteRejection"}
    ELSE {"TransportError", "RemoteRejection"}

Errors == {"TransportError", "RemoteRejection", "AccountNotFound",
           VerifyPreconditionError}

\* ----------------------------------------------------------- clients

CallRecord(name, arg, out) ==
    [call |-> name, arg |-> arg, out |-> out, at |-> verifier_len]

\* A client method is entered by a thread that is in none.
CanCall(c) ==
    /\ pc[c] \in {"idle", "done"}
    /\ invocations[c] < MaxInvocations

\* Client::new(program_id, access_controller_data_account, rpc_client, payer) and
\* the entry into method m of it.
Enter(c, m, p, ac) ==
    /\ op' = [op EXCEPT ![c] = m]
    /\ payer' = [payer EXCEPT ![c] = p]
    /\ access_controller' = [access_controller EXCEPT ![c] = ac]
    /\ calls' = [calls EXCEPT ![c] = << >>]
    /\ previous' = [previous EXCEPT ![c] =
                       IF m = "realloc_full_size" /\ op[c] = m
                       THEN result[c] ELSE "none"]
    /\ current_size' = [current_size EXCEPT ![c] = 0]
    /\ invocations' = [invocations EXCEPT ![c] = @ + 1]

\* realloc_full_size, up to its get_account
CallReallocFullSize(c, p) ==
    /\ CanCall(c)
    /\ Enter(c, "realloc_full_size", p, None)
    /\ pc' = [pc EXCEPT ![c] = "get_account"]
    /\ instr' = [instr EXCEPT ![c] = NoInstr]
    /\ result' = [result EXCEPT ![c] = "none"]
    /\ UNCHANGED <<size_of, verifier_len, ac_data, owner, proposed_owner>>

\* read_access_controller_state, up to its get_account
CallReadAccessControllerState(c, p) ==
    /\ CanCall(c)
    /\ Enter(c, "read_access_controller_state", p, None)
    /\ pc' = [pc EXCEPT ![c] = "get_account"]
    /\ instr' = [instr EXCEPT ![c] = NoInstr]
    /\ result' = [result EXCEPT ![c] = "none"]
    /\ UNCHANGED <<size_of, verifier_len, ac_data, owner, proposed_owner>>

\* transfer_ownership(proposed_owner) of the client of `program`, up to send_transaction
CallTransferOwnership(c, program, p, proposed) ==
    /\ CanCall(c)
    /\ Enter(c, "transfer_ownership", p, None)
    /\ pc' = [pc EXCEPT ![c] = "get_latest_blockhash"]
    /\ instr' = [instr EXCEPT ![c] = TransferOwnershipInstruction(program, p, proposed)]
    /\ result' = [result EXCEPT ![c] = "none"]
    /\ UNCHANGED <<size_of, verifier_len, ac_data, owner, proposed_owner>>

\* accept_ownership() of the client of `program`, up to send_transaction
CallAcceptOwnership(c, program, p) ==
    /\ CanCall(c)
    /\ Enter(c, "accept_ownership", p, None)
    /\ pc' = [pc EXCEPT ![c] = "get_latest_blockhash"]
    /\ instr' = [instr EXCEPT ![c] = AcceptOwnershipInstruction(program, p)]
    /\ result' = [result EXCEPT ![c] = "none"]
    /\ UNCHANGED <<size_of, verifier_len, ac_data, owner, proposed_owner>>

\* verify(signed_report), up to send_transaction
CallVerify(c, p, ac, report_len) ==
    /\ CanCall(c)
    /\ Enter(c, "verify", p, ac)
    /\ LET path == VerifyPath(ac, report_len) IN
         /\ pc' = [pc EXCEPT ![c] =
                     CASE path = "precondition" -> "done"
                       [] path = "panic" -> "aborted"
                       [] OTHER -> "get_latest_blockhash"]
         /\ result' = [result EXCEPT ![c] =
                     CASE path = "precondition" -> VerifyPreconditionError
                       [] path = "panic" -> "panic"
                       [] OTHER -> "none"]
         /\ instr' = [instr EXCEPT ![c] =
                     IF path = "send" THEN VerifyInstruction(p, ac, report_len)
                     ELSE NoInstr]
    /\ UNCHANGED <<size_of, verifier_len, ac_data, owner, proposed_owner>>

\* realloc_full_size's loop from its head to the call of realloc(current_size);
\* past the loop stands unreachable!()
ReallocLoop(c, cs) ==
    IF LoopContinues(cs, TargetSize)
    THEN /\ current_size' = [current_size EXCEPT ![c] = NextSize(cs, TargetSize)]
         /\ instr' = [instr EXCEPT ![c] =
                        ReallocInstruction(payer[c], NextSize(cs, TargetSize))]
         /\ pc' = [pc EXCEPT ![c] = "get_latest_blockhash"]
         /\ result' = result
    ELSE /\ current_size' = [current_size EXCEPT ![c] = cs]
         /\ instr' = instr
         /\ pc' = [pc EXCEPT ![c] = "aborted"]
         /\ result' = [result EXCEPT ![c] = "panic"]

\* rpc_client.get_account(..) and what follows it: in realloc_full_size
\* .expect(..) and the loop's first round, in read_access_controller_state `?`,
\* try_deserialize(..).unwrap() and Ok(state)
GetAccount(c, out) ==
    /\ pc[c] = "get_account"
    /\ out \in GetAccountOutcomes(IF op[c] = "realloc_full_size"
                                  THEN verifier_len # NoAccount
                                  ELSE ac_data.len # NoAccount)
    /\ calls' = [calls EXCEPT ![c] = Append(@, CallRecord("get_account", 0, out))]
    /\ IF op[c] = "realloc_full_size"
       THEN IF out = "ok"
            THEN ReallocLoop(c, ReadSize(verifier_len))
            ELSE /\ pc' = [pc EXCEPT ![c] = "aborted"]
                 /\ result' = [result EXCEPT ![c] = "panic"]
                 /\ UNCHANGED <<current_size, instr>>
       ELSE /\ UNCHANGED <<current_size, instr>>
            /\ IF PropagatesError(out)
               THEN /\ pc' = [pc EXCEPT ![c] = "done"]
                    /\ result' = [result EXCEPT ![c] = ReturnedValue(out)]
               ELSE IF TryDeserialize(ac_data) = "ok"
                    THEN /\ pc' = [pc EXCEPT ![c] = "done"]
                         /\ result' = [result EXCEPT ![c] = "state"]
                    ELSE /\ pc' = [pc EXCEPT ![c] = "aborted"]
                         /\ result' = [result EXCEPT ![c] = "panic"]
    /\ UNCHANGED <<size_of, verifier_len, ac_data, owner, proposed_owner, op, payer,
                   access_controller, previous, invocations>>

\* send_transaction: rpc_client.get_latest_blockhash()?
GetLatestBlockhash(c, out) ==
    /\ pc[c] = "get_latest_blockhash"
    /\ out \in BlockhashOutcomes
    /\ calls' = [calls EXCEPT ![c] =
                   Append(@, CallRecord("get_latest_blockhash", 0, out))]
    /\ pc' = [pc EXCEPT ![c] = AfterBlockhash(out)]
    /\ result' = [result EXCEPT ![c] =
                    IF AfterBlockhash(out) = "done" THEN ReturnedValue(out) ELSE @]
    /\ UNCHANGED <<size_of, verifier_len, ac_data, owner, proposed_owner, op, payer,
                   access_controller, instr, current_size, previous, invocations>>

\* send_transaction: Transaction::new_with_payer(instructions, payer), sign with
\* the payer, submit; and what follows in the calling method: its return, or, in
\* realloc_full_size, `?`, the check for the target and the loop's next round
SendTransaction(c, out) ==
    /\ pc[c] = "send"
    /\ out \in SubmitOutcomes(instr[c], {payer[c]})
    /\ calls' = [calls EXCEPT ![c] =
                   Append(@, CallRecord(SubmitCall(instr[c].program), instr[c].arg, out))]
    /\ IF out = "ok"
       THEN LedgerApply(instr[c])
       ELSE UNCHANGED <<verifier_len, owner, proposed_owner>>
    /\ IF PropagatesError(out)
       THEN /\ pc' = [pc EXCEPT ![c] = "done"]
            /\ result' = [result EXCEPT ![c] = ReturnedValue(out)]
            /\ UNCHANGED <<current_size, instr>>
       ELSE IF op[c] = "realloc_full_size"
                /\ ~ReturnsSignature(current_size[c], TargetSize)
            THEN ReallocLoop(c, current_size[c])
            ELSE /\ pc' = [pc EXCEPT ![c] = "done"]
                 /\ result' = [result EXCEPT ![c] = ReturnedValue(out)]
                 /\ UNCHANGED <<current_size, instr>>
    /\ UNCHANGED <<size_of, ac_data, op, payer, access_controller, previous,
                   invocations>>

\* ---------------------------------------------------- specifications

TailSizes == {ACCOUNT_DISCRIMINATOR_SIZE, 4520, REALLOC_INCREMENT}

\* size_of::<VerifierAccount>() is fixed by the on-ledger schema; the sizes tried
VerifierAccountSizes ==
    {k * REALLOC_INCREMENT + d - ACCOUNT_DISCRIMINATOR_SIZE :
        k \in 0 .. MaxFullSteps, d \in TailSizes}

\* lengths the verifier account may have when a client first looks at it
InitialLens ==
    {k * REALLOC_INCREMENT + e :
        k \in 0 .. MaxFullSteps, e \in {0, ACCOUNT_DISCRIMINATOR_SIZE, 4520}}

AccessControllerSizes == {16, 2120}

\* the address a verifier client is given as access_controller_data_account
AccessControllerAccount == 1

\* report lengths around the 32-byte seed
ReportLens == {0, REPORT_SEED_LEN - 1, REPORT_SEED_LEN, MaxReportLen}

\* bytes the access controller account may hold
AccessControllerData(size) ==
    {[len |-> NoAccount, disc |-> "none"]} \cup
    [len : {0, 7, 8, size + 7, size + 8, size + 9},
     disc : {"AccessController", "VerifierAccount"}]

InitThreads(second) ==
    /\ pc = [c \in Procs |-> IF c = 1 THEN "idle" ELSE second]
    /\ op = [c \in Procs |-> "none"]
    /\ payer = [c \in Procs |-> None]
    /\ access_controller = [c \in Procs |-> None]
    /\ instr = [c \in Procs |-> NoInstr]
    /\ current_size = [c \in Procs |-> 0]
    /\ calls = [c \in Procs |-> << >>]
    /\ result = [c \in Procs |-> "none"]
    /\ previous = [c \in Procs |-> "none"]

InitOwners ==
    /\ owner = [p \in Programs |-> 1]
    /\ proposed_owner = [p \in Programs |-> None]

\* One client thread growing the verifier account, calling again after a return.
Init ==
    /\ \E s \in VerifierAccountSizes :
          size_of = [AccessController |-> 2120, VerifierAccount |-> s]
    /\ verifier_len \in InitialLens \cup {NoAccount}
    /\ ac_data = [len |-> NoAccount, disc |-> "none"]
    /\ InitOwners
    /\ InitThreads("off")
    /\ invocations = [c \in Procs |-> 0]

Next ==
    \E c \in Procs :
        \/ \E p \in Keys : CallReallocFullSize(c, p)
        \/ \E out \in GetAccountOutcomes(TRUE) \cup GetAccountOutcomes(FALSE) :
              GetAccount(c, out)
        \/ \E out \in BlockhashOutcomes : GetLatestBlockhash(c, out)
        \/ \E out \in {"ok", "TransportError", "RemoteRejection"} :
              SendTransaction(c, out)

Spec == Init /\ [][Next]_vars

\* Two client threads, each calling realloc_full_size once, unserialized.
InitConc ==
    /\ \E s \in VerifierAccountSizes :
          size_of = [AccessController |-> 2120, VerifierAccount |-> s]
    /\ verifier_len \in InitialLens \cup {NoAccount}
    /\ ac_data = [len |-> NoAccount, disc |-> "none"]
    /\ InitOwners
    /\ InitThreads("idle")
    /\ invocations = [c \in Procs |-> MaxInvocations - 1]

SpecConc == InitConc /\ [][Next]_vars

\* One caller at a time using clients of both programs, of any payer.
InitAdmin ==
    /\ size_of = [AccessController |-> 2120, VerifierAccount |-> 24992]
    /\ ac_data = [len |-> 2128, disc |-> "AccessController"]
    /\ verifier_len = 0
    /\ InitOwners
    /\ InitThreads("off")
    /\ invocations = [c \in Procs |-> 0]

NextAdmin ==
    \E c \in Procs :
        \/ \E p \in Keys : CallReallocFullSize(c, p)
        \/ \E program \in Programs, p \in Keys, proposed \in Keys :
              CallTransferOwnership(c, program, p, proposed)
        \/ \E program \in Programs, p \in Keys : CallAcceptOwnership(c, program, p)
        \/ \E p \in Keys, ac \in {None, AccessControllerAccount}, n \in ReportLens :
              CallVerify(c, p, ac, n)
        \/ \E out \in GetAccountOutcomes(TRUE) \cup GetAccountOutcomes(FALSE) :
              GetAccount(c, out)
        \/ \E out \in BlockhashOutcomes : GetLatestBlockhash(c, out)
        \/ \E out \in {"ok", "TransportError", "RemoteRejection"} :
              SendTransaction(c, out)

SpecAdmin == InitAdmin /\ [][NextAdmin]_vars

\* One caller reading the access controller account, whatever bytes it holds.
InitRead ==
    /\ \E s \in AccessControllerSizes :
          /\ size_of = [AccessController |-> s, VerifierAccount |-> 24992]
          /\ ac_data \in AccessControllerData(s)
    /\ verifier_len = 0
    /\ InitOwners
    /\ InitThreads("off")
    /\ invocations = [c \in Procs |-> 0]

NextRead ==
    \E c \in Procs :
        \/ \E p \in Keys : CallReadAccessControllerState(c, p)
        \/ \E out \in GetAccountOutcomes(TRUE) \cup GetAccountOutcomes(FALSE) :
              GetAccount(c, out)

SpecRead == InitRead /\ [][NextRead]_vars

\* ------------------------------------------------------------ claims

IsSubmit(r) ==
    r.call \in {"send_transaction_with_config", "send_and_confirm_transaction"}

\* the submissions of thread c's current invocation, in order
Requests(c) == SelectSeq(calls[c], IsSubmit)

\* realloc_full_size of thread c has read the account's length
HasReadSize(c) ==
    /\ op[c] = "realloc_full_size"
    /\ Len(calls[c]) >= 1
    /\ calls[c][1].out = "ok"

\* the length it read
SizeRead(c) == calls[c][1].at

Returned(c, r) == pc[c] = "done" /\ result[c] = r

CeilDiv(a, b) == (a + b - 1) \div b

\* C1: realloc_full_size never asks for a size above the target, whatever the
\* account's initial size and whichever steps fail, and when it returns a
\* signature its last request asked for exactly the target.
C1_NoOvershoot ==
    \A c \in Procs :
        op[c] = "realloc_full_size" =>
            /\ \A i \in 1 .. Len(calls[c]) :
                  IsSubmit(calls[c][i]) => calls[c][i].arg <= TargetSize
            /\ instr[c].name = "realloc_account" => instr[c].arg <= TargetSize
            /\ Returned(c, "sig") =>
                  /\ Len(calls[c]) > 0
                  /\ IsSubmit(calls[c][Len(calls[c])])
                  /\ calls[c][Len(calls[c])].arg = TargetSize

\* a call that returned a signature after MaxFullSteps + 1 requests, the first
\* invocation having failed
C1_Witness ==
    \E c \in Procs :
        /\ op[c] = "realloc_full_size"
        /\ Returned(c, "sig")
        /\ previous[c] \in Errors
        /\ Len(Requests(c)) = MaxFullSteps + 1

\* C2: when every step succeeds, the k-th request of realloc_full_size asks for
\* min(s0 + k * REALLOC_INCREMENT, target), s0 being the length read; the sizes
\* asked for rise strictly, by at most one increment; and a call that returns a
\* signature started below the target and made ceil((target - s0) / increment)
\* requests.
C2_StepSequence ==
    \A c \in Procs :
        HasReadSize(c) =>
            LET s0 == SizeRead(c)
                R == Requests(c)
            IN  /\ \A k \in 1 .. Len(R) :
                      R[k].arg = Min(s0 + k * REALLOC_INCREMENT, TargetSize)
                /\ \A k \in 2 .. Len(R) :
                      /\ R[k - 1].arg < R[k].arg
                      /\ R[k].arg - R[k - 1].arg <= REALLOC_INCREMENT
                /\ Returned(c, "sig") =>
                      /\ s0 < TargetSize
                      /\ Len(R) = CeilDiv(TargetSize - s0, REALLOC_INCREMENT)

\* growth from 0 to 25000: the requests 10240, 20480, 25000
C2_Witness ==
    \E c \in Procs :
        /\ HasReadSize(c)
        /\ SizeRead(c) = 0
        /\ TargetSize = 25000
        /\ Returned(c, "sig")
        /\ [k \in 1 .. Len(Requests(c)) |-> Requests(c)[k].arg] = <<10240, 20480, 25000>>

\* the size of the last confirmed request, or the length read if there is none
LastConfirmed(c) ==
    LET ok == SelectSeq(Requests(c), LAMBDA r : r.out = "ok")
    IN  IF Len(ok) = 0 THEN SizeRead(c) ELSE ok[Len(ok)].arg

\* C3: within one realloc_full_size every RPC call but the last succeeded, so a
\* request follows only confirmed ones; a failed blockhash fetch or submission
\* is the last call, its error is what the call returns, and the account is
\* left at the last confirmed size.
C3_StepAfterConfirm ==
    \A c \in Procs :
        op[c] = "realloc_full_size" =>
            /\ \A i \in 1 .. Len(calls[c]) - 1 : calls[c][i].out = "ok"
            /\ \A i \in 2 .. Len(calls[c]) :
                  calls[c][i].out # "ok" =>
                      /\ pc[c] = "done"
                      /\ result[c] = calls[c][i].out
                      /\ verifier_len = LastConfirmed(c)

\* a call that failed after a confirmed step, the account partly grown
C3_Witness ==
    \E c \in Procs :
        /\ HasReadSize(c)
        /\ Returned(c, "RemoteRejection")
        /\ \E i \in 1 .. Len(calls[c]) :
              IsSubmit(calls[c][i]) /\ calls[c][i].out = "ok"
        /\ SizeRead(c) < verifier_len
        /\ verifier_len < TargetSize

\* C4: a realloc_full_size called after one that failed reads the account's
\* length s, first asks for min(s + REALLOC_INCREMENT, target), never asks for
\* less than s, and when it returns a signature the account has the target size.
C4_RetryResumes ==
    \A c \in Procs :
        (HasReadSize(c) /\ previous[c] \in Errors) =>
            LET s == SizeRead(c)
                R == Requests(c)
                first == Min(s + REALLOC_INCREMENT, TargetSize)
            IN  /\ Len(R) >= 1 => R[1].arg = first
                /\ (Len(R) = 0 /\ instr[c].name = "realloc_account") =>
                      instr[c].arg = first
                /\ \A k \in 1 .. Len(R) : R[k].arg >= s
                /\ Returned(c, "sig") => verifier_len = TargetSize

\* a retry that found the account partly grown and brought it to the target
C4_Witness ==
    \E c \in Procs :
        /\ HasReadSize(c)
        /\ previous[c] \in Errors
        /\ SizeRead(c) = 2 * REALLOC_INCREMENT
        /\ TargetSize = 25000
        /\ Returned(c, "sig")
        /\ verifier_len = TargetSize

\* C5: realloc_full_size always returns a value, a signature or an error, and
\* never aborts.
C5_AlwaysReturns ==
    \A c \in Procs : op[c] = "realloc_full_size" => pc[c] # "aborted"

\* C6: verify on a client without an access controller returns the
\* precondition error and has made no RPC call, whatever the report.
C6_VerifyPrecondition ==
    \A c \in Procs :
        (op[c] = "verify" /\ access_controller[c] = None) =>
            /\ Returned(c, VerifyPreconditionError)
            /\ calls[c] = << >>
            /\ instr[c] = NoInstr

C6_Witness ==
    \E c \in Procs :
        /\ op[c] = "verify"
        /\ access_controller[c] = None
        /\ Returned(c, VerifyPreconditionError)

\* C7: read_access_controller_state returns an error value whenever it fails:
\* the fetch's error, or the decode error of bytes that do not deserialize; it
\* never aborts and returns a state only for bytes that deserialize.
C7_ReadReturnsError ==
    \A c \in Procs :
        (op[c] = "read_access_controller_state" /\ Len(calls[c]) = 1) =>
            /\ pc[c] = "done"
            /\ result[c] = IF calls[c][1].out # "ok" THEN calls[c][1].out
                           ELSE IF TryDeserialize(ac_data) = "ok" THEN "state"
                           ELSE TryDeserialize(ac_data)

HandshakeNames == {"transfer_ownership", "accept_ownership"}

\* the ledger's rule for who may take the step instruction i asks for
Authorized(i, p) ==
    IF i.name = "transfer_ownership"
    THEN p = owner[i.program]
    ELSE proposed_owner[i.program] # None /\ p = proposed_owner[i.program]

\* C8: for both accounts, the owner changes only by an accept_ownership whose
\* payer is the proposed owner, a proposal is made only by a transfer_ownership
\* whose payer is the owner, the client names its payer as the authority, and
\* any other attempt leaves the ownership as it was and returns the
\* transport's error as it came.
C8_Handshake ==
    [][ /\ \A c \in Procs :
              (pc[c] = "send" /\ pc'[c] # "send" /\ instr[c].name \in HandshakeNames) =>
                  LET i == instr[c]
                      a == i.program
                  IN  /\ i.authority = payer[c]
                      /\ owner'[a] # owner[a] =>
                            /\ i.name = "accept_ownership"
                            /\ Authorized(i, payer[c])
                            /\ owner'[a] = payer[c]
                      /\ (proposed_owner'[a] # proposed_owner[a]
                              /\ proposed_owner'[a] # None) =>
                            /\ i.name = "transfer_ownership"
                            /\ Authorized(i, payer[c])
                            /\ proposed_owner'[a] = i.arg
                      /\ ~Authorized(i, payer[c]) =>
                            /\ owner' = owner
                            /\ proposed_owner' = proposed_owner
                            /\ result'[c] \in {"TransportError", "RemoteRejection"}
                            /\ result'[c] = calls'[c][Len(calls'[c])].out
        /\ (owner' # owner \/ proposed_owner' # proposed_owner) =>
              \E c \in Procs :
                  /\ pc[c] = "send"
                  /\ pc'[c] # "send"
                  /\ instr[c].name \in HandshakeNames
      ]_vars

\* a handshake completed, and then an attempt by another payer refused
C8_Witness ==
    \E c \in Procs, a \in Programs :
        /\ owner[a] # 1
        /\ op[c] \in HandshakeNames
        /\ instr[c].program = a
        /\ payer[c] # owner[a]
        /\ Returned(c, "RemoteRejection")

\* C9: every submission comes right after a successful blockhash fetch of the
\* same call; a failed fetch or a failed submission is the call's last RPC call
\* and its error is what the call returns; a single-instruction method submits
\* at most once, and realloc_full_size submits each size once.
C9_SubmitOrder ==
    \A c \in Procs :
        LET L == calls[c]
            R == Requests(c)
        IN  /\ \A i \in 1 .. Len(L) :
                  IsSubmit(L[i]) =>
                      /\ i > 1
                      /\ L[i - 1].call = "get_latest_blockhash"
                      /\ L[i - 1].out = "ok"
            /\ \A i \in 1 .. Len(L) :
                  (L[i].call # "get_account" /\ L[i].out # "ok") =>
                      /\ i = Len(L)
                      /\ pc[c] = "done"
                      /\ result[c] = L[i].out
            /\ op[c] # "realloc_full_size" => Len(R) <= 1
            /\ \A j, k \in 1 .. Len(R) : j # k => R[j].arg # R[k].arg

\* a growth call whose second blockhash fetch failed: one submission made, the
\* transport's error returned
C9_Witness ==
    \E c \in Procs :
        /\ HasReadSize(c)
        /\ Len(calls[c]) = 4
        /\ calls[c][4].call = "get_latest_blockhash"
        /\ Returned(c, "TransportError")
        /\ Len(Requests(c)) = 1

\* C10: with two realloc_full_size calls interleaved, no request asks for more
\* than the target, and once both have returned a signature the account has
\* exactly the target size.
C10_Concurrent ==
    /\ \A c \in Procs :
          /\ \A i \in 1 .. Len(calls[c]) :
                IsSubmit(calls[c][i]) => calls[c][i].arg <= TargetSize
          /\ instr[c].name = "realloc_account" => instr[c].arg <= TargetSize
    /\ (\A c \in Procs : Returned(c, "sig")) => verifier_len = TargetSize

\* both returned a signature, one of them having asked for less than the
\* account held at that moment
C10_Witness ==
    /\ \A c \in Procs : Returned(c, "sig")
    /\ \E c \in Procs : \E i \in 1 .. Len(calls[c]) :
          /\ IsSubmit(calls[c][i])
          /\ calls[c][i].out = "ok"
          /\ calls[c][i].arg < calls[c][i].at

====
